---- MODULE Spec2Model ----
(***************************************************************************)
(* Model of the performance overlay of src/src/main.rs: the FPS counter,   *)
(* the telemetry collector (statscheck), the stored snapshots and the      *)
(* per-frame callback StatsApp::update with its hotkey channel.            *)
(*                                                                         *)
(* Time.  Instant::now() is the variable `now`, counted in ticks of 1/60   *)
(* of a second, so Duration::from_secs(1) is Second == 60 ticks.  A call   *)
(* of update takes no model time: every Instant::now() and elapsed() of    *)
(* one call reads the same `now`.                                          *)
(*                                                                         *)
(* Memory.  Byte counts are counted in blocks of 1,024,000 bytes, so the   *)
(* divisor 1,024,000,000 of bytes_to_gigabytes is 1000 blocks.  A count of *)
(* up to 134,217 blocks is a byte count that an f32 represents exactly, so *)
(* the f32 quotient of two byte counts is the f32 quotient of their block  *)
(* counts.                                                                 *)
(***************************************************************************)
EXTENDS Integers, Sequences, FiniteSets, TLC

VARIABLES
    now,          \* the monotonic clock read by Instant::now(), in ticks
    gpu_stats,    \* StatsApp.gpu_stats
    cpu_stats,    \* StatsApp.cpu_stats
    last_refresh, \* StatsApp.last_refresh
    fps_counter,  \* StatsApp.fps_counter: [frames, last_fps_update, current_fps]
    visible,      \* StatsApp.visible
    queue,        \* events waiting in GlobalHotKeyEvent::receiver()
    running,      \* FALSE once a panic has unwound out of update
    process,      \* main(): where it stands and what it did to the outside
    call,         \* what the latest update call did (outputs to the host)
    due,          \* the host clock moved since the latest update call
    matched,      \* history: matching hotkey events drained so far
    collects,     \* history: statscheck invocations so far
    lastAttempt,  \* history: clock value of the latest statscheck invocation
    lastOk        \* history: pair returned by the latest successful statscheck

vars == <<now, gpu_stats, cpu_stats, last_refresh, fps_counter, visible, queue,
          running, process, call, due, matched, collects, lastAttempt, lastOk>>

-----------------------------------------------------------------------------
(* Bounds of the model *)

MaxSeconds == 2
MaxFrames == 2
MaxQueue == 2
MaxEvents == 3
E2ESeconds == 3
BurstFrames == 30
LiveSeconds == 3

-----------------------------------------------------------------------------
(* Program constants *)

\* Duration::from_secs(1), in ticks of 1/60 s
Second == 60

\* ctx.request_repaint_after arguments, in milliseconds
RepaintHiddenMs == 1000
RepaintVisibleMs == 16

\* i8 range of used_memory_percentage and total_usage
I8Min == -128
I8Max == 127

\* custom_hotkey.id() and the id of some other registration
HotkeyId == "AltT"
OtherId == "other"
EventIds == {HotkeyId, OtherId}

\* "no statscheck invocation yet"
NoTime == 0 - 1

\* 1024000000.0 bytes, in blocks of 1,024,000 bytes
GigabyteBlocks == 1000

-----------------------------------------------------------------------------
(* f32 arithmetic of the percentage expression.  A positive f32 is         *)
(* [m, e], value m * 2^e, with 2^23 <= m < 2^24.                            *)

RECURSIVE Pow2(_)
Pow2(n) == IF n <= 0 THEN 1 ELSE 2 * Pow2(n - 1)

\* round to nearest, ties to even, of (q + r/d) with 0 <= r < d
RoundNearestEven(q, r, d) ==
    IF 2 * r > d \/ (2 * r = d /\ q % 2 = 1) THEN q + 1 ELSE q

F32Normalize(m, e) ==
    IF m = Pow2(24) THEN [m |-> Pow2(23), e |-> e + 1] ELSE [m |-> m, e |-> e]

\* least s >= 0 with u * 2^s >= t
RECURSIVE ShiftUp(_, _)
ShiftUp(u, t) == IF u >= t THEN 0 ELSE 1 + ShiftUp(2 * u, t)

\* least j >= 0 with u < t * 2^(j+1)
RECURSIVE ShiftDown(_, _)
ShiftDown(u, t) == IF u < 2 * t THEN 0 ELSE 1 + ShiftDown(u, 2 * t)

\* n further quotient bits of r/t by long division: [m, r]
RECURSIVE LongDiv(_, _, _, _)
LongDiv(m, r, t, n) ==
    IF n = 0 THEN [m |-> m, r |-> r]
    ELSE IF 2 * r >= t THEN LongDiv(2 * m + 1, 2 * r - t, t, n - 1)
         ELSE LongDiv(2 * m, 2 * r, t, n - 1)

\* (u as f32) / (t as f32) for u, t > 0
F32Div(u, t) ==
    LET s == ShiftUp(u, t)
        j == ShiftDown(u, t)
        U == u * Pow2(s)
        T == t * Pow2(j)
        d == LongDiv(1, U - T, T, 23)
    IN  F32Normalize(RoundNearestEven(d.m, d.r, T), j - s - 23)

\* x * 100.0 in f32
F32Mul100(x) ==
    LET p == x.m * 100
        d == IF p < Pow2(30) THEN 6 ELSE 7
    IN  F32Normalize(RoundNearestEven(p \div Pow2(d), p % Pow2(d), Pow2(d)), x.e + d)

\* f32::round (half away from zero) of a positive f32, saturated at 2^30
F32Round(x) ==
    IF x.e >= 7 THEN Pow2(30)
    ELSE IF x.e >= 0 THEN x.m * Pow2(x.e)
    ELSE IF -x.e > 24 THEN 0
    ELSE (x.m + Pow2(-x.e - 1)) \div Pow2(-x.e)

\* `as i8` of a float that holds an integer: saturating
AsI8(n) == IF n > I8Max THEN I8Max ELSE IF n < I8Min THEN I8Min ELSE n

\* ((used as f32 / total as f32) * 100.0).round() as i8
\* 0/0 is NaN and casts to 0; x/0 is +inf and casts to i8::MAX
UsedMemoryPercentage(used, total) ==
    IF total = 0 THEN (IF used = 0 THEN 0 ELSE I8Max)
    ELSE IF used = 0 THEN 0
    ELSE AsI8(F32Round(F32Mul100(F32Div(used, total))))

F32Zero == [m |-> 0, e |-> 0]

\* bytes as f32 / 1024000000.0, on a count of 1,024,000-byte blocks
bytes_to_gigabytes(blocks) ==
    IF blocks = 0 THEN F32Zero ELSE F32Div(blocks, GigabyteBlocks)

\* the mathematical round(used/total*100), half away from zero
ExactPercentage(used, total) == (200 * used + total) \div (2 * total)

-----------------------------------------------------------------------------
(* The telemetry providers.  One hardware reading is what the NVML and     *)
(* sysinfo getters return during one statscheck call: memory in blocks,    *)
(* power in milliwatts, CPU usage (an f32 percentage) in tenths.           *)

Readings == {
    [name |-> "GPU-A", used |-> 2000, total |-> 8000, temperature |-> 40,
     core_clock |-> 1500, memory_clock |-> 5000, fan_speed |-> 30,
     power_mw |-> 75500, cpu_tenths |-> 125],
    [name |-> "GPU-A", used |-> 21000, total |-> 40000, temperature |-> 70,
     core_clock |-> 1800, memory_clock |-> 7000, fan_speed |-> 60,
     power_mw |-> 250000, cpu_tenths |-> 999],
    [name |-> "GPU-A", used |-> 1, total |-> 0, temperature |-> 55,
     core_clock |-> 300, memory_clock |-> 400, fan_speed |-> 0,
     power_mw |-> 9999, cpu_tenths |-> 7] }

\* the fallible NVML queries of statscheck, in evaluation order
Queries == <<"device_by_index", "memory_info", "name", "temperature",
             "clock_graphics", "clock_memory", "fan_speed", "power_usage">>

\* which query returns Err during one statscheck call ("none": all succeed)
FailPoints == {"none"} \cup {Queries[i] : i \in 1..Len(Queries)}

\* power_usage()? as f64 / 1000.0, as watts and thousandths
Watts(mw) == [whole |-> mw \div 1000, milli |-> mw % 1000]

\* global_cpu_usage() as i8: truncation toward zero, saturating
CpuUsage(tenths) == AsI8(tenths \div 10)

\* Some(0.0) and None of Option<f32> / Option<u32>
None == <<"None">>
Some(x) == <<"Some", x>>

\* the CPU temperature taken from a sensor reading instead of the placeholder
statscheck_cpu_sensor(hw, fail) ==
    IF fail # "none"
    THEN [ok |-> FALSE, err |-> fail]
    ELSE [ok |-> TRUE,
          gpu |-> [name |-> hw.name,
                   used_memory |-> bytes_to_gigabytes(hw.used),
                   total_memory |-> bytes_to_gigabytes(hw.total),
                   used_memory_percentage |-> UsedMemoryPercentage(hw.used, hw.total),
                   temperature |-> hw.temperature,
                   core_clock |-> hw.core_clock,
                   memory_clock |-> hw.memory_clock,
                   fan_speed |-> hw.fan_speed,
                   power_usage |-> Watts(hw.power_mw)],
          cpu |-> [total_usage |-> CpuUsage(hw.cpu_tenths),
                   temperature |-> Some(hw.temperature),
                   fan_speed |-> None]]

statscheck(hw, fail) ==
    IF fail # "none"
    THEN [ok |-> FALSE, err |-> fail]
    ELSE [ok |-> TRUE,
          gpu |-> [name |-> hw.name,
                   used_memory |-> bytes_to_gigabytes(hw.used),
                   total_memory |-> bytes_to_gigabytes(hw.total),
                   used_memory_percentage |-> UsedMemoryPercentage(hw.used, hw.total),
                   temperature |-> hw.temperature,
                   core_clock |-> hw.core_clock,
                   memory_clock |-> hw.memory_clock,
                   fan_speed |-> hw.fan_speed,
                   power_usage |-> Watts(hw.power_mw)],
          cpu |-> [total_usage |-> CpuUsage(hw.cpu_tenths),
                   temperature |-> Some(0),
                   fan_speed |-> None]]

-----------------------------------------------------------------------------
(* FpsCounter *)

FpsCounter_new(t) == [frames |-> 0, last_fps_update |-> t, current_fps |-> 0]

\* the boundary test written with > instead of >=
FpsCounter_update_strict(fc, t) ==
    LET n == fc.frames + 1
    IN  IF t - fc.last_fps_update > Second
        THEN [frames |-> 0, last_fps_update |-> t, current_fps |-> n]
        ELSE [fc EXCEPT !.frames = n]

\* the rate taken before the frame is counted
FpsCounter_update_before(fc, t) ==
    IF t - fc.last_fps_update >= Second
    THEN [frames |-> 0, last_fps_update |-> t, current_fps |-> fc.frames]
    ELSE [fc EXCEPT !.frames = fc.frames + 1]

\* the new window started on the 1 s grid instead of at the call
FpsCounter_update_boundary(fc, t) ==
    LET n == fc.frames + 1
    IN  IF t - fc.last_fps_update >= Second
        THEN [frames |-> 0, last_fps_update |-> fc.last_fps_update + Second,
              current_fps |-> n]
        ELSE [fc EXCEPT !.frames = n]

FpsCounter_update(fc, t) ==
    LET n == fc.frames + 1
    IN  IF t - fc.last_fps_update >= Second
        THEN [frames |-> 0, last_fps_update |-> t, current_fps |-> n]
        ELSE [fc EXCEPT !.frames = n]

-----------------------------------------------------------------------------
(* StatsApp *)

ZeroGpu == [name |-> "", used_memory |-> F32Zero, total_memory |-> F32Zero,
            used_memory_percentage |-> 0, temperature |-> 0, core_clock |-> 0,
            memory_clock |-> 0, fan_speed |-> 0, power_usage |-> Watts(0)]

ZeroCpu == [total_usage |-> 0, temperature |-> None, fan_speed |-> None]

\* nothing was drawn
NotShown == <<>>

NoCall == [kind |-> "none", recorded |-> FALSE, drew |-> FALSE, shown |-> NotShown,
           collect |-> "none", requests |-> <<>>]

\* main() inside eframe::run_native: Nvml::init() returned Ok, the window is
\* open, the creator closure has run StatsApp::new (hotkey registered)
InRunNative == [pc |-> "run_native", nvml |-> "ok", logged |-> FALSE,
                window |-> TRUE, hotkey |-> TRUE, exit |-> "none"]

\* StatsApp::new, and the process state around it
Init ==
    /\ now = 0
    /\ gpu_stats = ZeroGpu
    /\ cpu_stats = ZeroCpu
    /\ last_refresh = 0
    /\ fps_counter = FpsCounter_new(0)
    /\ visible = TRUE
    /\ queue = <<>>
    /\ running = TRUE
    /\ process = InRunNative
    /\ call = NoCall
    /\ due = FALSE
    /\ matched = 0
    /\ collects = 0
    /\ lastAttempt = NoTime
    /\ lastOk = <<ZeroGpu, ZeroCpu>>

\* an assignment of self.cpu_stats left out
refresh_stats_gpu_only(gpu, cpu, res) ==
    IF res.ok
    THEN [panicked |-> FALSE, gpu_stats |-> res.gpu, cpu_stats |-> cpu]
    ELSE [panicked |-> TRUE, gpu_stats |-> gpu, cpu_stats |-> cpu]

\* refresh_stats: the unwrap panics on Err, before either field is assigned
refresh_stats(gpu, cpu, res) ==
    IF res.ok
    THEN [panicked |-> FALSE, gpu_stats |-> res.gpu, cpu_stats |-> res.cpu]
    ELSE [panicked |-> TRUE, gpu_stats |-> gpu, cpu_stats |-> cpu]

\* a drain that leaves out the comparison with custom_hotkey.id()
RECURSIVE DrainHotkeys_any(_, _)
DrainHotkeys_any(vis, q) ==
    IF q = <<>> THEN vis ELSE DrainHotkeys_any(~vis, Tail(q))

\* the while-let loop over try_recv(): the visibility after the drain
RECURSIVE DrainHotkeys(_, _)
DrainHotkeys(vis, q) ==
    IF q = <<>> THEN vis
    ELSE DrainHotkeys(IF Head(q) = HotkeyId THEN ~vis ELSE vis, Tail(q))

\* `if let` in place of `while let`: at most one event received per call
Received_first(q) == IF q = <<>> THEN q ELSE <<Head(q)>>

\* the events the while-let loop receives from a channel holding q: try_recv
\* returns them in order and the loop ends at the first Err (channel empty)
Received(q) == q

\* what the channel still holds after r was received from q
Remaining(q, r) == SubSeq(q, Len(r) + 1, Len(q))

RECURSIVE MatchCount(_)
MatchCount(q) ==
    IF q = <<>> THEN 0
    ELSE (IF Head(q) = HotkeyId THEN 1 ELSE 0) + MatchCount(Tail(q))

\* `if self.visible { self.fps_counter.update(); }` at the top of update
RecordsFrame(visBefore, visAfter) == visBefore

\* an update without the early return
EarlyReturn_never(vis) == FALSE

\* `if !self.visible { ...; return; }`
EarlyReturn(vis) == ~vis

\* the refresh test written with > instead of >=
RefreshDue_strict(last, t) == t - last > Second

\* `if self.last_refresh.elapsed() >= Duration::from_secs(1)`
RefreshDue(last, t) == t - last >= Second

\* a panel drawn after the refresh block
Drawn_after(before, after) == after

\* the snapshots the CentralPanel closure formats: the draw comes before the
\* refresh block, so it reads the pair stored when the call began
Drawn(before, after) == before

\* the requests of the early return: request_repaint_after(from_secs(1))
HiddenWake == <<RepaintHiddenMs>>

\* a forgotten request at the end of update
NextWake_none(vis) == <<>>

\* `if self.visible { ctx.request_repaint_after(from_millis(16)); }`
NextWake(vis) == IF vis THEN <<RepaintVisibleMs>> ELSE <<>>

\* StatsApp::update, one whole call at clock value `now`; hw and fail are
\* what the providers answer if this call polls them
\* statscheck tabulated over the readings and failure points of the model
statscheck_results == [hw \in Readings, fail \in FailPoints |-> statscheck(hw, fail)]

StatsApp_update(hw, fail) ==
    /\ running
    /\ LET got  == Received(queue)
           rec  == RecordsFrame(visible, DrainHotkeys(visible, got))
           fc1  == IF rec THEN FpsCounter_update(fps_counter, now) ELSE fps_counter
           vis1 == DrainHotkeys(visible, got)
       IN  /\ fps_counter' = fc1
           /\ visible' = vis1
           /\ queue' = Remaining(queue, got)
           /\ matched' = matched + MatchCount(got)
           /\ due' = FALSE
           /\ UNCHANGED <<now, process>>
           /\ IF EarlyReturn(vis1)
              THEN /\ call' = [kind |-> "returned", recorded |-> rec, drew |-> FALSE,
                               shown |-> NotShown, collect |-> "none",
                               requests |-> HiddenWake]
                   /\ UNCHANGED <<gpu_stats, cpu_stats, last_refresh, running,
                                  collects, lastAttempt, lastOk>>
              ELSE IF RefreshDue(last_refresh, now)
              THEN LET res == statscheck_results[hw, fail]
                       st  == refresh_stats(gpu_stats, cpu_stats, res)
                       shown == Drawn(<<gpu_stats, cpu_stats>>,
                                      <<st.gpu_stats, st.cpu_stats>>)
                   IN  /\ collects' = collects + 1
                       /\ lastAttempt' = now
                       /\ lastOk' = IF res.ok THEN <<res.gpu, res.cpu>> ELSE lastOk
                       /\ gpu_stats' = st.gpu_stats
                       /\ cpu_stats' = st.cpu_stats
                       /\ IF st.panicked
                          THEN /\ running' = FALSE
                               /\ call' = [kind |-> "panicked", recorded |-> rec,
                                           drew |-> TRUE, shown |-> shown,
                                           collect |-> "err",
                                           requests |-> <<>>]
                               /\ UNCHANGED last_refresh
                          ELSE /\ running' = TRUE
                               /\ last_refresh' = now
                               /\ call' = [kind |-> "returned", recorded |-> rec,
                                           drew |-> TRUE, shown |-> shown,
                                           collect |-> "ok",
                                           requests |-> NextWake(vis1)]
              ELSE /\ call' = [kind |-> "returned", recorded |-> rec, drew |-> TRUE,
                               shown |-> Drawn(<<gpu_stats, cpu_stats>>,
                                               <<gpu_stats, cpu_stats>>),
                               collect |-> "none",
                               requests |-> NextWake(vis1)]
                   /\ UNCHANGED <<gpu_stats, cpu_stats, last_refresh, running,
                                  collects, lastAttempt, lastOk>>

-----------------------------------------------------------------------------
(* The environment: the host toolkit calling update, the clock, the OS     *)
(* delivering hotkey events.                                               *)

MaxTime == MaxSeconds * Second

Deltas == {Second \div 2, Second}

\* the host invokes the frame callback
Update ==
    /\ visible => fps_counter.frames < MaxFrames
    /\ \E hw \in Readings, fail \in FailPoints : StatsApp_update(hw, fail)

\* time passes between two callbacks
Advance ==
    /\ running
    /\ \E d \in Deltas :
        /\ now + d <= MaxTime
        /\ now' = now + d
    /\ due' = TRUE
    /\ UNCHANGED <<gpu_stats, cpu_stats, last_refresh, fps_counter, visible, queue,
                   running, process, call, matched, collects, lastAttempt, lastOk>>

\* the OS puts a hotkey event on the channel
HotkeyEvent ==
    /\ running
    /\ Len(queue) < MaxQueue
    /\ matched + Len(queue) < MaxEvents
    /\ \E id \in EventIds : queue' = Append(queue, id)
    /\ UNCHANGED <<now, gpu_stats, cpu_stats, last_refresh, fps_counter, visible,
                   running, process, call, due, matched, collects, lastAttempt, lastOk>>

Next == Update \/ Advance \/ HotkeyEvent

Spec == Init /\ [][Next]_vars

-----------------------------------------------------------------------------
(* main(): Nvml::init(), then eframe::run_native, which opens the window   *)
(* and runs the creator closure (StatsApp::new) before the first frame.    *)

\* a field of a StatsApp that does not exist
NotConstructed == "not constructed"

AtMain == [pc |-> "main", nvml |-> "pending", logged |-> FALSE,
           window |-> FALSE, hotkey |-> FALSE, exit |-> "none"]

InitMain ==
    /\ now = 0
    /\ gpu_stats = NotConstructed
    /\ cpu_stats = NotConstructed
    /\ last_refresh = NotConstructed
    /\ fps_counter = NotConstructed
    /\ visible = NotConstructed
    /\ queue = <<>>
    /\ running = FALSE
    /\ process = AtMain
    /\ call = NoCall
    /\ due = FALSE
    /\ matched = 0
    /\ collects = 0
    /\ lastAttempt = NoTime
    /\ lastOk = <<ZeroGpu, ZeroCpu>>

\* an Err arm that logs and falls through to run_native
NvmlInitErr_continue(p) ==
    [p EXCEPT !.pc = "init_ok", !.nvml = "err", !.logged = TRUE]

\* `Err(e) => { eprintln!(..); return Ok(()); }`
NvmlInitErr(p) ==
    [p EXCEPT !.pc = "exit", !.nvml = "err", !.logged = TRUE, !.exit = "Ok"]

\* `Ok(nvml) => nvml`
NvmlInitOk(p) == [p EXCEPT !.pc = "init_ok", !.nvml = "ok"]

\* `let nvml = match Nvml::init() { ... }`
MainNvmlInit ==
    /\ process.pc = "main"
    /\ \E ok \in BOOLEAN :
          process' = IF ok THEN NvmlInitOk(process) ELSE NvmlInitErr(process)
    /\ UNCHANGED <<now, gpu_stats, cpu_stats, last_refresh, fps_counter, visible,
                   queue, running, call, due, matched, collects, lastAttempt, lastOk>>

\* a constructor that backdates last_refresh so that the first frame polls
StatsApp_new_backdated(t) ==
    [gpu_stats |-> ZeroGpu, cpu_stats |-> ZeroCpu, last_refresh |-> t - Second,
     fps_counter |-> FpsCounter_new(t), visible |-> TRUE]

\* the fields StatsApp::new gives the overlay state at clock value t
StatsApp_new(t) ==
    [gpu_stats |-> ZeroGpu, cpu_stats |-> ZeroCpu, last_refresh |-> t,
     fps_counter |-> FpsCounter_new(t), visible |-> TRUE]

\* eframe::run_native up to the first frame: the window is created, then the
\* creator closure runs StatsApp::new, whose two expect() calls panic when the
\* hotkey manager cannot be created or the hotkey cannot be registered
MainRunNative ==
    /\ process.pc = "init_ok"
    /\ \E hotkeyOk \in BOOLEAN :
          IF hotkeyOk
          THEN LET app == StatsApp_new(now)
               IN  /\ process' = [process EXCEPT !.pc = "run_native",
                                                 !.window = TRUE, !.hotkey = TRUE]
                   /\ gpu_stats' = app.gpu_stats
                   /\ cpu_stats' = app.cpu_stats
                   /\ last_refresh' = app.last_refresh
                   /\ fps_counter' = app.fps_counter
                   /\ visible' = app.visible
                   /\ running' = TRUE
          ELSE /\ process' = [process EXCEPT !.pc = "exit", !.window = TRUE,
                                             !.exit = "panic"]
               /\ UNCHANGED <<gpu_stats, cpu_stats, last_refresh, fps_counter,
                              visible, running>>
    /\ UNCHANGED <<now, queue, call, due, matched, collects, lastAttempt, lastOk>>

\* the frames of run_native
MainLoop == process.pc = "run_native" /\ Next

NextMain == MainNvmlInit \/ MainRunNative \/ MainLoop

SpecMain == InitMain /\ [][NextMain]_vars

-----------------------------------------------------------------------------
(* The end-to-end scenario: 60 update calls per second, one every tick,    *)
(* always Visible, the provider always answering used = 2,048,000,000 and  *)
(* total = 8,192,000,000 bytes.                                            *)

E2EReading == CHOOSE hw \in Readings : hw.used = 2000 /\ hw.total = 8000

E2EAdvance ==
    /\ ~due
    /\ now < E2ESeconds * Second
    /\ now' = now + 1
    /\ due' = TRUE
    /\ UNCHANGED <<gpu_stats, cpu_stats, last_refresh, fps_counter, visible, queue,
                   running, process, call, matched, collects, lastAttempt, lastOk>>

E2EUpdate == due /\ StatsApp_update(E2EReading, "none")

NextE2E == E2EAdvance \/ E2EUpdate

SpecE2E == Init /\ [][NextE2E]_vars

-----------------------------------------------------------------------------
(* The FPS counter alone: record_frame calls at arbitrary clock values.    *)

FpsRecord ==
    /\ fps_counter.frames <= BurstFrames
    /\ fps_counter' = FpsCounter_update(fps_counter, now)
    /\ UNCHANGED <<now, gpu_stats, cpu_stats, last_refresh, visible, queue, running,
                   process, call, due, matched, collects, lastAttempt, lastOk>>

FpsAdvance ==
    /\ \E d \in Deltas :
        /\ now + d <= MaxTime
        /\ now' = now + d
    /\ UNCHANGED <<gpu_stats, cpu_stats, last_refresh, fps_counter, visible, queue,
                   running, process, call, due, matched, collects, lastAttempt, lastOk>>

NextFps == FpsRecord \/ FpsAdvance

SpecFps == Init /\ [][NextFps]_vars

-----------------------------------------------------------------------------
(* Properties *)

\* a step that is one call of update
UpdateStep == \E hw \in Readings, fail \in FailPoints : StatsApp_update(hw, fail)

\* C1: when the collector called from a Visible update fails, the failure is
\* swallowed: the call returns normally with the snapshots it had, and the
\* process keeps running.
C1_FailureSwallowed ==
    call.collect = "err" =>
        /\ running
        /\ call.kind = "returned"
        /\ <<gpu_stats, cpu_stats>> = lastOk

\* C2: an update call that is Hidden after the drain draws nothing, never
\* invokes the collector, and leaves both snapshots and the refresh timestamp
\* as they were, however long ago the last collection was.
C2_HiddenCallIdle ==
    [][(UpdateStep /\ ~visible') =>
          /\ call'.drew = FALSE
          /\ call'.collect = "none"
          /\ collects' = collects
          /\ UNCHANGED <<gpu_stats, cpu_stats, last_refresh>>]_vars

\* a Hidden call made when a collection was due
C2_Witness ==
    /\ call.kind = "returned"
    /\ ~visible
    /\ ~due
    /\ RefreshDue(last_refresh, now)
    /\ ~call.drew

\* C3: visibility starts Visible and is Visible iff the number of matching
\* events drained so far is even; it changes only in an update call that
\* drains an odd number of matching events.
C3_VisibilityParity ==
    /\ [](visible <=> (matched % 2 = 0))
    /\ [][(visible' # visible) => (UpdateStep /\ MatchCount(queue) % 2 = 1)]_vars

\* two matching events and a non-matching one have been drained
C3_Witness ==
    /\ matched = 2
    /\ visible
    /\ call.kind = "returned"
    /\ queue = <<OtherId>>

\* C4: a frame is recorded for FPS exactly in the update calls that draw,
\* that is, those that are Visible after the drain.
C4_FrameIffDrawn ==
    call.kind # "none" => (call.recorded <=> call.drew)

\* C5: consecutive collector invocations are at least 1 second apart, and
\* the refresh timestamp is advanced after every attempt, failed or not.
C5_OncePerSecond ==
    [][(collects' = collects + 1) =>
          /\ lastAttempt = NoTime \/ now - lastAttempt >= Second
          /\ last_refresh' = now']_vars

RecordStep == fps_counter' = FpsCounter_update(fps_counter, now) /\ now' = now

\* C7 (as stated): after 30 record_frame calls inside the window, one call at
\* least 1 s after the window start reports a rate of 30, resets the tally to
\* 0 and starts the window at that call.
C7_RateThirty ==
    [][(RecordStep /\ fps_counter.frames = BurstFrames
                   /\ now - fps_counter.last_fps_update >= Second) =>
          fps_counter' = [frames |-> 0, last_fps_update |-> now,
                          current_fps |-> BurstFrames]]_vars

\* C7 (amended): after 30 record_frame calls inside the window, one call at
\* least 1 s after the window start reports a rate of 31 (the boundary call
\* is counted), resets the tally to 0 and starts the window at that call.
C7_RateCountsBoundaryCall ==
    [][(RecordStep /\ fps_counter.frames = BurstFrames
                   /\ now - fps_counter.last_fps_update >= Second) =>
          fps_counter' = [frames |-> 0, last_fps_update |-> now,
                          current_fps |-> BurstFrames + 1]]_vars

\* the state after that boundary call
C7_Witness ==
    /\ fps_counter.current_fps = BurstFrames + 1
    /\ fps_counter.frames = 0
    /\ fps_counter.last_fps_update = now
    /\ now >= Second

\* C8: the stored pair is the zeroed initial pair or the complete pair that
\* one successful collector call returned, and a collector call in which a
\* query fails returns no snapshot.
C8_AllOrNothing ==
    /\ <<gpu_stats, cpu_stats>> = lastOk
    /\ collects = 0 => lastOk = <<ZeroGpu, ZeroCpu>>
    /\ \A hw \in Readings, fail \in FailPoints \ {"none"} :
          DOMAIN statscheck(hw, fail) = {"ok", "err"}

\* a second successful collection has replaced the first
C8_Witness ==
    /\ collects >= 2
    /\ call.collect = "ok"
    /\ gpu_stats # ZeroGpu

\* C9: every update call that returns has issued exactly one next-wake
\* request: 1 second when Hidden after the drain, 16 ms when Visible.
C9_OneWakeRequest ==
    call.kind = "returned" =>
        call.requests = IF visible THEN <<RepaintVisibleMs>> ELSE <<RepaintHiddenMs>>

\* a Visible call that performed a collection
C9_Witness ==
    /\ call.kind = "returned"
    /\ call.collect = "ok"
    /\ call.requests = <<RepaintVisibleMs>>

\* C10: for a memory pair with total > 0 and used <= total, the stored
\* percentage is round(used/total*100), half away from zero, within 0..100.
C10_RoundedPercentage ==
    \A hw \in Readings :
        (/\ hw.total > 0
         /\ hw.used <= hw.total
         /\ call.collect = "ok"
         /\ gpu_stats = statscheck(hw, "none").gpu) =>
            /\ gpu_stats.used_memory_percentage = ExactPercentage(hw.used, hw.total)
            /\ gpu_stats.used_memory_percentage \in 0..100


\* C11: a memory reading with total = 0 is rejected: no snapshot computed
\* from it is ever stored.
C11_ZeroTotalRejected ==
    \A hw \in Readings :
        hw.total = 0 => gpu_stats # statscheck(hw, "none").gpu


\* C12: if Nvml::init() fails at startup the process logs the condition and
\* exits cleanly: no window is opened, no overlay state is constructed, no
\* hotkey is registered, update and the collector are never invoked, and
\* nothing happens after the exit.
C12_InitFailureExits ==
    /\ [](process.nvml = "err" =>
            /\ process = [pc |-> "exit", nvml |-> "err", logged |-> TRUE,
                          window |-> FALSE, hotkey |-> FALSE, exit |-> "Ok"]
            /\ <<gpu_stats, cpu_stats, last_refresh, fps_counter, visible>>
                 = <<NotConstructed, NotConstructed, NotConstructed,
                     NotConstructed, NotConstructed>>
            /\ ~running
            /\ call = NoCall
            /\ collects = 0)
    /\ [][process.pc # "exit"]_vars

\* the process after the failed initialisation
C12_Witness ==
    /\ process.nvml = "err"
    /\ process.pc = "exit"
    /\ process.logged

\* the pair StatsApp::new stores
ZeroPair == <<ZeroGpu, ZeroCpu>>

\* C13: the constructed overlay state holds the zeroed snapshots, is Visible
\* and has tally 0 and rate 0; construction invokes no collection; the first
\* collector invocation is in an update call at least 1 second after
\* construction (clock value 0), and every panel drawn before it shows the
\* zeroed snapshots.
C13_StartsZeroed ==
    /\ [](process.pc = "run_native" =>
            /\ call = NoCall =>
                  /\ <<gpu_stats, cpu_stats>> = ZeroPair
                  /\ cpu_stats.temperature = None
                  /\ visible = TRUE
                  /\ fps_counter.frames = 0 /\ fps_counter.current_fps = 0
                  /\ collects = 0
            /\ collects = 0 =>
                  /\ <<gpu_stats, cpu_stats>> = ZeroPair
                  /\ call.drew => call.shown = ZeroPair
            /\ collects = 1 =>
                  /\ lastAttempt >= Second
                  /\ call.collect # "none" => call.shown = ZeroPair)
    /\ [][process.pc = "init_ok" => collects' = collects /\ call' = call]_vars

\* a panel drawn half a second after construction, before any collection
C13_Witness ==
    /\ process.pc = "run_native"
    /\ call.drew
    /\ call.shown = ZeroPair
    /\ collects = 0
    /\ now > 0
    /\ ~due


\* C14: in a Visible update call the panel is drawn before the collector is
\* invoked and the draw changes nothing: the values drawn are the snapshots
\* stored when the call began, so a pair collected in a call is not the pair
\* that call displays.
C14_DrawsBeforeCollecting ==
    [][(UpdateStep /\ call'.drew) =>
          /\ call'.shown = <<gpu_stats, cpu_stats>>
          /\ call'.collect = "ok" => <<gpu_stats', cpu_stats'>> = lastOk']_vars

\* a call that replaced a collected pair by another and displayed the old one
C14_Witness ==
    /\ call.collect = "ok"
    /\ call.shown # ZeroPair
    /\ call.shown # <<gpu_stats, cpu_stats>>


\* C15: every update call, Visible or Hidden, drains the channel to empty
\* without waiting: each event that was queued when the call began is
\* consumed exactly once by that call, an empty channel does not block the
\* call, and an event queued after the call stays, in order, for the next
\* call.
C15_DrainsToEmpty ==
    /\ [][UpdateStep =>
             /\ queue' = <<>>
             /\ matched' = matched + MatchCount(queue)
             /\ visible' = (visible <=> (MatchCount(queue) % 2 = 0))]_vars
    /\ [][(queue' # queue /\ ~UpdateStep) =>
             \E id \in EventIds : queue' = Append(queue, id)]_vars
    /\ [](running => ENABLED UpdateStep)

\* one single update call, begun Visible, has consumed two matching events
C15_Witness ==
    /\ matched = 2
    /\ queue = <<>>
    /\ visible
    /\ call.recorded
    /\ fps_counter.frames = 1
    /\ fps_counter.current_fps = 0


\* C16: the reported rate changes only in a record_frame call made at least
\* 1 s after the window start; that call sets the rate to the tally including
\* itself, resets the tally to 0 and starts the window at its own time; every
\* other record_frame call adds exactly 1 to the tally and leaves the rate and
\* the window start alone.  The window start never lies in the future and
\* moves only in such a call, so two changes of the rate are at least 1 s
\* apart.
C16_TumblingWindow ==
    /\ [][fps_counter' # fps_counter =>
             LET crossing == now - fps_counter.last_fps_update >= Second
             IN  /\ now' = now
                 /\ crossing =>
                      fps_counter' = [frames |-> 0, last_fps_update |-> now,
                                      current_fps |-> fps_counter.frames + 1]
                 /\ ~crossing =>
                      fps_counter' = [fps_counter EXCEPT !.frames = @ + 1]
                 /\ (\/ fps_counter'.current_fps # fps_counter.current_fps
                     \/ fps_counter'.last_fps_update # fps_counter.last_fps_update)
                      => /\ crossing
                         /\ fps_counter'.last_fps_update = now]_vars
    /\ [](fps_counter.last_fps_update <= now)

\* a window of two calls closed by a third, one and a half seconds after the
\* window start
C16_Witness ==
    /\ fps_counter = [frames |-> 0, last_fps_update |-> now, current_fps |-> 3]
    /\ now = Second + Second \div 2


\* C17: an update call that ends Hidden leaves the last-refresh timestamp
\* alone and does not collect; so the call that turns the overlay Visible
\* again, 1 s or more after the last-refresh timestamp, draws the snapshot
\* stored before the overlay was hidden and invokes the collector in that
\* same call.
C17_CollectsOnReveal ==
    /\ [][(UpdateStep /\ ~visible') =>
             /\ last_refresh' = last_refresh
             /\ collects' = collects
             /\ ~call'.drew]_vars
    /\ [][(UpdateStep /\ ~visible /\ visible'
                      /\ now - last_refresh >= Second) =>
             /\ call'.drew
             /\ call'.shown = <<gpu_stats, cpu_stats>>
             /\ call'.shown = lastOk
             /\ collects' = collects + 1
             /\ lastAttempt' = now]_vars

\* the revealing call has shown a snapshot collected before the overlay was
\* hidden and has collected a new one
C17_Witness ==
    /\ call.kind = "returned"
    /\ ~call.recorded
    /\ call.drew
    /\ call.collect = "ok"
    /\ call.shown # ZeroPair
    /\ visible
    /\ lastAttempt = now
    /\ collects = 2


-----------------------------------------------------------------------------
(* The poll while the overlay stays Visible: no hotkey event arrives, the  *)
(* provider succeeds.  A Visible call ends by requesting a repaint 16 ms   *)
(* later (request_repaint_after), so the host calls update again, and the *)
(* clock keeps running up to the bound: both steps are weakly fair.        *)

LiveMaxTime == LiveSeconds * Second

\* the clock moves on; the host has a call to make at the new time
LiveAdvance ==
    /\ \E d \in Deltas :
        /\ now + d <= LiveMaxTime
        /\ now' = now + d
    /\ due' = TRUE
    /\ UNCHANGED <<gpu_stats, cpu_stats, last_refresh, fps_counter, visible, queue,
                   running, process, call, matched, collects, lastAttempt, lastOk>>

\* the host invokes the frame callback, the provider answers every query
LiveUpdate ==
    /\ due
    /\ \E hw \in Readings : StatsApp_update(hw, "none")

NextLive == LiveAdvance \/ LiveUpdate

SpecLive ==
    /\ Init
    /\ [][NextLive]_vars
    /\ WF_vars(LiveAdvance)
    /\ WF_vars(LiveUpdate)

\* C18: while the overlay stays Visible, the host keeps calling update, time
\* advances and the provider succeeds, an update call collects exactly when
\* 1 s or more has elapsed since the last-refresh timestamp, replacing the
\* stored snapshots with the collected ones; hence a collection eventually
\* occurs, and as long as the clock has a further second to run the refresh
\* falls due again and is then followed by a collection.
C18_PollIsLive ==
    /\ [][UpdateStep =>
             IF now - last_refresh >= Second
             THEN /\ collects' = collects + 1
                  /\ call'.collect = "ok"
                  /\ last_refresh' = now
                  /\ \E hw \in Readings :
                        /\ gpu_stats' = statscheck(hw, "none").gpu
                        /\ cpu_stats' = statscheck(hw, "none").cpu
             ELSE /\ collects' = collects
                  /\ UNCHANGED <<gpu_stats, cpu_stats, last_refresh>>]_vars
    /\ [](visible /\ running)
    /\ <>(collects > 0)
    /\ (now + Second <= LiveMaxTime) ~> (now - last_refresh >= Second)
    /\ (now - last_refresh >= Second) ~> (call.collect = "ok" /\ last_refresh = now)

\* a second collection has replaced the snapshots of the first
C18_Witness ==
    /\ visible
    /\ collects >= 2
    /\ call.collect = "ok"
    /\ last_refresh = now
    /\ call.shown # ZeroPair
    /\ call.recorded


\* C19: every successful collection stores a CPU snapshot whose temperature
\* is present and equal to the placeholder 0.0 and whose fan speed is absent;
\* so the stored CPU temperature is absent exactly while no collection has
\* succeeded yet, and is never a non-zero value.
C19_CpuTemperaturePlaceholder ==
    /\ [][(UpdateStep /\ call'.collect = "ok") =>
             /\ cpu_stats'.temperature = Some(0)
             /\ cpu_stats'.fan_speed = None]_vars
    /\ [](/\ cpu_stats.temperature \in {None, Some(0)}
          /\ cpu_stats.fan_speed = None
          /\ cpu_stats.temperature = None
               <=> (collects = 0 \/ (collects = 1 /\ ~running)))

\* a collection has succeeded and stored the placeholder with a CPU load
C19_Witness ==
    /\ call.collect = "ok"
    /\ cpu_stats = [total_usage |-> 99, temperature |-> Some(0), fan_speed |-> None]

====
